---- MODULE Spec2Model ----
(***************************************************************************)
(* Storefront server actions: the cart handlers (two implementations),     *)
(* createOrder and getOrder, over the tables products, cart_items, orders  *)
(* and order_items.  Every database round trip of a handler is one step:   *)
(* a handler begins with its session check and first query, and the        *)
(* catalogue (and, in the racing specification, another invocation) may    *)
(* change between two of its queries.                                      *)
(***************************************************************************)
EXTENDS Integers, FiniteSets, Sequences, TLC

\* ------------------------------------------------------------------ bounds
MaxStock == 2
MaxCartIds == 3
MaxOrders == 2
MaxEdits == 2

\* -------------------------------------------------------- program constants
FreeShippingThreshold == 50000
ShippingFlatFee == 3000

\* ------------------------------------------------------------- input sets
\* u1 is the caller under study (or nobody is signed in); u2 is another
\* user, whose cart line and order are already in the tables.
Users == {"u1", "u2"}
NoUser == "none"
Callers == {"u1", NoUser}
ProductIds == {"pA", "pB"}
MissingProductId == "pX"
Prices == {25000, 49999}
Names == {"n1", "n2"}
Reqs == {1, 2}
ReqQuantities == 0 .. MaxStock
CartIds == 1 .. MaxCartIds
OrderIds == 1 .. MaxOrders

VARIABLES products, cart_items, orders, order_items,
          nextCartId, nextOrderId, edits, req, users

vars == <<products, cart_items, orders, order_items,
          nextCartId, nextOrderId, edits, req, users>>

tables == <<products, cart_items, orders, order_items>>

\* The handler's local state.  Optional values are sets of at most one row.
IdleReq ==
    [pc |-> "idle", op |-> "none", userId |-> NoUser, productId |-> "pA",
     quantity |-> 0, cartItemId |-> 0, orderId |-> 0,
     product |-> {}, existingItem |-> {}, validItems |-> {},
     finalTotal |-> 0, result |-> "none", data |-> {}]

Invoke(op, userId) == [IdleReq EXCEPT !.op = op, !.userId = userId]

\* The handler returns its result object; its arguments and the rows it
\* read along the way are gone with its frame.
Finish(rec, res) ==
    [rec EXCEPT !.pc = "done", !.result = res,
                !.productId = IdleReq.productId, !.quantity = 0,
                !.cartItemId = 0, !.product = {}, !.existingItem = {}]

At(rec, pc) == [rec EXCEPT !.pc = pc]

Idle(r) == req[r].pc = "idle"

Running(r) == req[r].pc \notin {"idle", "done"}

\* The caller has taken the result; the slot is free for the next invocation.
Return(r) ==
    /\ req[r].pc = "done"
    /\ req' = [req EXCEPT ![r] = IdleReq]
    /\ UNCHANGED <<tables, nextCartId, nextOrderId, edits, users>>

InFlight(ops) == Cardinality({r \in Reqs : Running(r) /\ req[r].op \in ops})

\* Variant: the session check lets every call through.
Authenticated_Always(userId) == TRUE

Authenticated(userId) == userId # NoUser

Prod(item) == CHOOSE p \in item.products : TRUE

The(S) == CHOOSE x \in S : TRUE

\* ------------------------------------------------------------------- Init
Init ==
    /\ products = [p \in ProductIds |->
                     [name |-> "n1",
                      price |-> IF p = "pA" THEN 25000 ELSE 49999,
                      stock_quantity |-> MaxStock,
                      is_active |-> TRUE]]
    /\ cart_items = {[id |-> 1, clerk_id |-> "u2", product_id |-> "pA",
                      quantity |-> 1]}
    /\ orders = {[id |-> 1, clerk_id |-> "u2", total_amount |-> 28000,
                  status |-> "pending"]}
    /\ order_items = {[order_id |-> 1, product_id |-> "pA",
                       product_name |-> "n1", quantity |-> 1, price |-> 25000]}
    /\ nextCartId = 2
    /\ nextOrderId = 2
    /\ edits = 0
    /\ req = [r \in Reqs |-> IdleReq]
    /\ users = {[clerk_id |-> u] : u \in Users}

\* ------------------------------------------- the catalogue, edited elsewhere
SetStock(p, s) ==
    /\ edits < MaxEdits
    /\ s # products[p].stock_quantity
    /\ products' = [products EXCEPT ![p].stock_quantity = s]
    /\ edits' = edits + 1
    /\ UNCHANGED <<cart_items, orders, order_items, nextCartId, nextOrderId, req, users>>

SetActive(p, b) ==
    /\ edits < MaxEdits
    /\ b # products[p].is_active
    /\ products' = [products EXCEPT ![p].is_active = b]
    /\ edits' = edits + 1
    /\ UNCHANGED <<cart_items, orders, order_items, nextCartId, nextOrderId, req, users>>

\* Variant: order lines follow the catalogue price instead of keeping a copy.
SetPrice_Propagating(p, pr) ==
    /\ edits < MaxEdits
    /\ pr # products[p].price
    /\ products' = [products EXCEPT ![p].price = pr]
    /\ order_items' = {[i EXCEPT !.price = IF i.product_id = p THEN pr ELSE @] :
                          i \in order_items}
    /\ edits' = edits + 1
    /\ UNCHANGED <<cart_items, orders, nextCartId, nextOrderId, req, users>>

SetPrice(p, pr) ==
    /\ edits < MaxEdits
    /\ pr # products[p].price
    /\ products' = [products EXCEPT ![p].price = pr]
    /\ edits' = edits + 1
    /\ UNCHANGED <<cart_items, orders, order_items, nextCartId, nextOrderId, req, users>>

Rename(p, n) ==
    /\ edits < MaxEdits
    /\ n # products[p].name
    /\ products' = [products EXCEPT ![p].name = n]
    /\ edits' = edits + 1
    /\ UNCHANGED <<cart_items, orders, order_items, nextCartId, nextOrderId, req, users>>

\* ------------------------------------------------------------ createOrder
\* select('*, products(*)').eq('clerk_id', userId).eq('products.is_active', true):
\* every line of the caller, its product embedded only when it exists and
\* is active.
CartQuery(userId) ==
    {[id |-> c.id, product_id |-> c.product_id, quantity |-> c.quantity,
      products |-> IF c.product_id \in ProductIds
                      /\ products[c.product_id].is_active
                   THEN {products[c.product_id]} ELSE {}] :
        c \in {x \in cart_items : x.clerk_id = userId}}

\* Variant: only a product that is out of stock altogether is rejected.
InsufficientStockItems_OutOfStockOnly(cartItems) ==
    {[name |-> Prod(i).name, stock |-> Prod(i).stock_quantity] :
        i \in {x \in cartItems :
                 x.products # {} /\ Prod(x).stock_quantity < 1}}

\* Variant: the loop stops at the first line that fails the stock check.
InsufficientStockItems_FirstOnly(cartItems) ==
    LET short == {x \in cartItems :
                    x.products # {} /\ Prod(x).stock_quantity < x.quantity}
    IN  IF short = {} THEN {}
        ELSE {[name |-> Prod(The(short)).name,
               stock |-> Prod(The(short)).stock_quantity]}

InsufficientStockItems(cartItems) ==
    {[name |-> Prod(i).name, stock |-> Prod(i).stock_quantity] :
        i \in {x \in cartItems :
                 x.products # {} /\ Prod(x).stock_quantity < x.quantity}}

ValidItems(cartItems) ==
    {i \in cartItems :
        i.products # {} /\ ~(Prod(i).stock_quantity < i.quantity)}

RECURSIVE TotalAmount(_)
TotalAmount(items) ==
    IF items = {} THEN 0
    ELSE LET i == CHOOSE x \in items : TRUE
         IN  Prod(i).price * i.quantity + TotalAmount(items \ {i})

\* Variant: free shipping only strictly above the threshold.
ShippingFee_AboveThreshold(totalAmount) ==
    IF totalAmount > FreeShippingThreshold THEN 0 ELSE ShippingFlatFee

ShippingFee(totalAmount) ==
    IF totalAmount >= FreeShippingThreshold THEN 0 ELSE ShippingFlatFee

\* Variant: the fee is left out of the stored total.
FinalTotal_NoFee(totalAmount) == totalAmount

FinalTotal(totalAmount) == totalAmount + ShippingFee(totalAmount)

OrderRow(id, userId, finalTotal) ==
    [id |-> id, clerk_id |-> userId, total_amount |-> finalTotal,
     status |-> "pending"]

\* Variant: name and price looked up in the catalogue when the lines are
\* written, not taken from the cart query.
OrderItemRows_CurrentCatalogue(orderId, validItems) ==
    {[order_id |-> orderId, product_id |-> i.product_id,
      product_name |-> products[i.product_id].name, quantity |-> i.quantity,
      price |-> products[i.product_id].price] : i \in validItems}

OrderItemRows(orderId, validItems) ==
    {[order_id |-> orderId, product_id |-> i.product_id,
      product_name |-> Prod(i).name, quantity |-> i.quantity,
      price |-> Prod(i).price] : i \in validItems}

OrderedProductIds(validItems) == {i.product_id : i \in validItems}

\* Variant: the cart delete is filtered by product id alone.
ClearedCart_AnyOwner(userId, orderedProductIds) ==
    {c \in cart_items : c.product_id \notin orderedProductIds}

ClearedCart(userId, orderedProductIds) ==
    {c \in cart_items :
        ~(c.clerk_id = userId /\ c.product_id \in orderedProductIds)}

\* What the first part of createOrder (session, cart query, stock check,
\* totals) leaves the invocation with.
LoadedCart(rec) ==
    LET cartItems == CartQuery(rec.userId)
        insufficient == InsufficientStockItems(cartItems)
        validItems == ValidItems(cartItems)
    IN  IF cartItems = {}
        THEN Finish(rec, "EmptyCart")
        ELSE IF insufficient # {}
        THEN [Finish(rec, "InsufficientStock") EXCEPT !.data = insufficient]
        ELSE [rec EXCEPT !.pc = "co_insert_order",
                         !.validItems = validItems,
                         !.finalTotal = FinalTotal(TotalAmount(validItems))]

CreateOrder_CartRead(rec) ==
    IF ~Authenticated(rec.userId) THEN {Finish(rec, "Unauthorized")}
    ELSE {Finish(rec, "CartLoadFailed"), LoadedCart(rec)}

CreateOrder_LoadCart(r, u) ==
    /\ Idle(r)
    /\ nextOrderId + InFlight({"createOrder"}) <= MaxOrders
    /\ UNCHANGED <<tables, nextCartId, nextOrderId, edits, users>>
    /\ \E next \in CreateOrder_CartRead(Invoke("createOrder", u)) :
         req' = [req EXCEPT ![r] = next]

CreateOrder_InsertOrder(r) ==
    /\ req[r].pc = "co_insert_order"
    /\ UNCHANGED <<products, cart_items, order_items, nextCartId, edits, users>>
    /\ \/ /\ req' = [req EXCEPT ![r] = Finish(req[r], "OrderCreateFailed")]
          /\ UNCHANGED <<orders, nextOrderId>>
       \/ /\ orders' = orders \cup
                 {OrderRow(nextOrderId, req[r].userId, req[r].finalTotal)}
          /\ nextOrderId' = nextOrderId + 1
          /\ req' = [req EXCEPT ![r] =
                       [req[r] EXCEPT !.pc = "co_insert_items",
                                      !.orderId = nextOrderId]]

\* Variant: the stock of every ordered product is reduced with the insert.
CreateOrder_InsertItems_TakingStock(r) ==
    /\ req[r].pc = "co_insert_items"
    /\ UNCHANGED <<cart_items, orders, nextCartId, nextOrderId, edits, users>>
    /\ \/ /\ req' = [req EXCEPT ![r].pc = "co_rollback"]
          /\ UNCHANGED <<order_items, products>>
       \/ /\ order_items' = order_items \cup
                 OrderItemRows(req[r].orderId, req[r].validItems)
          /\ products' = [p \in ProductIds |->
                IF p \in OrderedProductIds(req[r].validItems)
                THEN [products[p] EXCEPT !.stock_quantity = 0]
                ELSE products[p]]
          /\ req' = [req EXCEPT ![r].pc = "co_clear_cart"]

CreateOrder_InsertItems(r) ==
    /\ req[r].pc = "co_insert_items"
    /\ UNCHANGED <<products, cart_items, orders, nextCartId, nextOrderId, edits, users>>
    /\ \/ /\ req' = [req EXCEPT ![r].pc = "co_rollback"]
          /\ UNCHANGED order_items
       \/ /\ order_items' = order_items \cup
                 OrderItemRows(req[r].orderId, req[r].validItems)
          /\ req' = [req EXCEPT ![r].pc = "co_clear_cart"]

\* Variant: the compensating delete is filtered by owner, not by order id.
CreateOrder_Rollback_ByOwner(r) ==
    /\ req[r].pc = "co_rollback"
    /\ UNCHANGED <<products, cart_items, order_items, nextCartId, nextOrderId, edits, users>>
    /\ \/ orders' = {o \in orders : o.clerk_id # req[r].userId}
       \/ UNCHANGED orders
    /\ req' = [req EXCEPT ![r] = Finish(req[r], "OrderItemsFailed")]

\* The compensating delete; its outcome is not inspected.
CreateOrder_Rollback(r) ==
    /\ req[r].pc = "co_rollback"
    /\ UNCHANGED <<products, cart_items, order_items, nextCartId, nextOrderId, edits, users>>
    /\ \/ orders' = {o \in orders : o.id # req[r].orderId}
       \/ UNCHANGED orders
    /\ req' = [req EXCEPT ![r] = Finish(req[r], "OrderItemsFailed")]

\* The cart delete; its failure is logged and the order still succeeds.
CreateOrder_ClearCart(r) ==
    /\ req[r].pc = "co_clear_cart"
    /\ UNCHANGED <<products, orders, order_items, nextCartId, nextOrderId, edits, users>>
    /\ \/ cart_items' = ClearedCart(req[r].userId,
                                    OrderedProductIds(req[r].validItems))
       \/ UNCHANGED cart_items
    /\ req' = [req EXCEPT ![r] = Finish(req[r], "ok")]

\* ------------------------------------------------------- storage helpers
ProductRow(productId) ==
    IF productId \in ProductIds THEN {products[productId]} ELSE {}

CartLineOf(userId, productId) ==
    {c \in cart_items : c.clerk_id = userId /\ c.product_id = productId}

CartLineById(id) == {c \in cart_items : c.id = id}

\* Variant: the line is looked up by id alone.
OwnedCartLineById_AnyOwner(id, userId) == {c \in cart_items : c.id = id}

OwnedCartLineById(id, userId) ==
    {c \in cart_items : c.id = id /\ c.clerk_id = userId}

\* cart_items.quantity carries CHECK (quantity > 0).
QuantityAllowed(quantity) == quantity > 0

UpdateQuantity(sel, quantity) ==
    {IF c \in sel THEN [c EXCEPT !.quantity = quantity] ELSE c : c \in cart_items}

\* insert into cart_items: UNIQUE per (user, product) and the quantity check.
\* Variant: no uniqueness constraint on (user, product).
InsertAllowed_NoUniqueness(userId, productId, quantity) ==
    QuantityAllowed(quantity)

InsertAllowed(userId, productId, quantity) ==
    /\ QuantityAllowed(quantity)
    /\ CartLineOf(userId, productId) = {}

CartRow(id, userId, productId, quantity) ==
    [id |-> id, clerk_id |-> userId, product_id |-> productId,
     quantity |-> quantity]

\* Line ids are never reused; the model stops handing them out at MaxCartIds.
IdsLeft == nextCartId + InFlight({"addToCart1", "addToCart2"}) <= MaxCartIds

\* Variant: the increment is applied to the line as it is stored now, not
\* to the quantity that was read.
NewQuantity_FromStoredLine(existingItem, quantity) ==
    IF existingItem = {} THEN quantity
    ELSE IF CartLineById(The(existingItem).id) = {}
    THEN The(existingItem).quantity + quantity
    ELSE The(CartLineById(The(existingItem).id)).quantity + quantity

NewQuantity(existingItem, quantity) ==
    IF existingItem # {} THEN The(existingItem).quantity + quantity
    ELSE quantity

\* The write both addToCart implementations end with: update the line that
\* was read, or insert a new one.
AddToCart_Write(r) ==
    /\ UNCHANGED <<products, orders, order_items, nextOrderId, edits, users>>
    /\ LET newQuantity == NewQuantity(req[r].existingItem, req[r].quantity)
       IN  IF req[r].existingItem # {}
           THEN /\ UNCHANGED nextCartId
                /\ \/ /\ UNCHANGED cart_items
                      /\ req' = [req EXCEPT ![r] = Finish(req[r], "UpdateFailed")]
                   \/ /\ QuantityAllowed(newQuantity)
                      /\ cart_items' = UpdateQuantity(
                            CartLineById(The(req[r].existingItem).id), newQuantity)
                      /\ req' = [req EXCEPT ![r] = Finish(req[r], "ok")]
           ELSE \/ /\ UNCHANGED <<cart_items, nextCartId>>
                   /\ req' = [req EXCEPT ![r] = Finish(req[r], "InsertFailed")]
                \/ /\ nextCartId <= MaxCartIds
                   /\ InsertAllowed(req[r].userId, req[r].productId, req[r].quantity)
                   /\ cart_items' = cart_items \cup
                         {CartRow(nextCartId, req[r].userId, req[r].productId,
                                  req[r].quantity)}
                   /\ nextCartId' = nextCartId + 1
                   /\ req' = [req EXCEPT ![r] = Finish(req[r], "ok")]

\* ------------------------------------------------ addToCart, actions/cart.ts
\* select("id, stock_quantity, is_active, name")
Columns1(row) ==
    [stock_quantity |-> row.stock_quantity, is_active |-> row.is_active,
     name |-> row.name]

AddToCart1_ProductRead(rec) ==
    IF ~Authenticated(rec.userId) THEN {Finish(rec, "Unauthorized")}
    ELSE IF rec.quantity < 1 THEN {Finish(rec, "InvalidQuantity")}
    ELSE LET product == ProductRow(rec.productId)
         IN  {Finish(rec, "NotFound")} \cup
             (IF product = {} THEN {}
              ELSE IF ~The(product).is_active THEN {Finish(rec, "Inactive")}
              ELSE {[rec EXCEPT !.pc = "a1_existing",
                                !.product = {Columns1(The(product))}]})

AddToCart1_Product(r, u, p, q) ==
    /\ Idle(r)
    /\ IdsLeft \/ CartLineOf(u, p) # {}
    /\ UNCHANGED <<tables, nextCartId, nextOrderId, edits, users>>
    /\ \E next \in AddToCart1_ProductRead(
                     [Invoke("addToCart1", u) EXCEPT !.productId = p,
                                                     !.quantity = q]) :
         req' = [req EXCEPT ![r] = next]

\* The lookup's error is not inspected: a failed lookup reads as "no line".
AddToCart1_ExistingRead(rec) ==
    {IF NewQuantity(existingItem, rec.quantity) > The(rec.product).stock_quantity
     THEN Finish(rec, "InsufficientStock")
     ELSE [rec EXCEPT !.pc = "a1_write", !.existingItem = existingItem] :
        existingItem \in {CartLineOf(rec.userId, rec.productId), {}}}

AddToCart1_Existing(r) ==
    /\ req[r].pc = "a1_existing"
    /\ UNCHANGED <<tables, nextCartId, nextOrderId, edits, users>>
    /\ \E next \in AddToCart1_ExistingRead(req[r]) :
         req' = [req EXCEPT ![r] = next]

AddToCart1_Write(r) ==
    /\ req[r].pc = "a1_write"
    /\ AddToCart_Write(r)

\* ----------------------------------------- addToCart, second implementation
\* select('stock_quantity, name')
Columns2(row) == [stock_quantity |-> row.stock_quantity, name |-> row.name]

AddToCart2_ProductRead(rec) ==
    IF ~Authenticated(rec.userId) THEN {Finish(rec, "Unauthorized")}
    ELSE LET product == ProductRow(rec.productId)
         IN  {Finish(rec, "NotFound")} \cup
             (IF product = {} THEN {}
              ELSE IF The(product).stock_quantity < rec.quantity
              THEN {Finish(rec, "InsufficientStock")}
              ELSE {[rec EXCEPT !.pc = "a2_existing",
                                !.product = {Columns2(The(product))}]})

AddToCart2_Product(r, u, p, q) ==
    /\ Idle(r)
    /\ IdsLeft \/ CartLineOf(u, p) # {}
    /\ UNCHANGED <<tables, nextCartId, nextOrderId, edits, users>>
    /\ \E next \in AddToCart2_ProductRead(
                     [Invoke("addToCart2", u) EXCEPT !.productId = p,
                                                     !.quantity = q]) :
         req' = [req EXCEPT ![r] = next]

AddToCart2_ExistingRead(rec) ==
    LET existingCartItem == CartLineOf(rec.userId, rec.productId)
    IN  {Finish(rec, "CartFetchFailed"),
         IF existingCartItem # {}
            /\ The(rec.product).stock_quantity
                 < NewQuantity(existingCartItem, rec.quantity)
         THEN Finish(rec, "InsufficientStock")
         ELSE [rec EXCEPT !.pc = "a2_write", !.existingItem = existingCartItem]}

AddToCart2_Existing(r) ==
    /\ req[r].pc = "a2_existing"
    /\ UNCHANGED <<tables, nextCartId, nextOrderId, edits, users>>
    /\ \E next \in AddToCart2_ExistingRead(req[r]) :
         req' = [req EXCEPT ![r] = next]

AddToCart2_Write(r) ==
    /\ req[r].pc = "a2_write"
    /\ AddToCart_Write(r)

\* -------------------------------------------- removeFromCart, actions/cart.ts
\* Variant: the fetched line's owner is not compared with the caller.
RemoveFromCart1_FetchRead_NoOwnerCheck(rec) ==
    IF ~Authenticated(rec.userId) THEN {Finish(rec, "Unauthorized")}
    ELSE LET cartItem == CartLineById(rec.cartItemId)
         IN  {Finish(rec, "NotFound")} \cup
             (IF cartItem = {} THEN {} ELSE {At(rec, "r1_delete")})

RemoveFromCart1_FetchRead(rec) ==
    IF ~Authenticated(rec.userId) THEN {Finish(rec, "Unauthorized")}
    ELSE LET cartItem == CartLineById(rec.cartItemId)
         IN  {Finish(rec, "NotFound")} \cup
             (IF cartItem = {} THEN {}
              ELSE IF The(cartItem).clerk_id # rec.userId
              THEN {Finish(rec, "Forbidden")}
              ELSE {At(rec, "r1_delete")})

RemoveFromCart1_Fetch(r, u, id) ==
    /\ Idle(r)
    /\ UNCHANGED <<tables, nextCartId, nextOrderId, edits, users>>
    /\ \E next \in RemoveFromCart1_FetchRead(
                     [Invoke("removeFromCart1", u) EXCEPT !.cartItemId = id]) :
         req' = [req EXCEPT ![r] = next]

RemoveFromCart1_DeleteOutcomes(rec) ==
    {[req |-> Finish(rec, "DeleteFailed"), cart_items |-> cart_items],
     [req |-> Finish(rec, "ok"),
      cart_items |-> cart_items \ CartLineById(rec.cartItemId)]}

RemoveFromCart1_Delete(r) ==
    /\ req[r].pc = "r1_delete"
    /\ UNCHANGED <<products, orders, order_items, nextCartId, nextOrderId, edits, users>>
    /\ \E o \in RemoveFromCart1_DeleteOutcomes(req[r]) :
          /\ cart_items' = o.cart_items
          /\ req' = [req EXCEPT ![r] = o.req]

\* ------------------------------------ removeFromCart, second implementation
\* What one call can leave behind: the finished request and the cart.
RemoveFromCart2_Outcomes(rec) ==
    IF ~Authenticated(rec.userId)
    THEN {[req |-> Finish(rec, "Unauthorized"), cart_items |-> cart_items]}
    ELSE {[req |-> Finish(rec, "DeleteFailed"), cart_items |-> cart_items],
          [req |-> Finish(rec, "ok"),
           cart_items |-> cart_items \
                            OwnedCartLineById(rec.cartItemId, rec.userId)]}

RemoveFromCart2_Run(r, rec) ==
    \E o \in RemoveFromCart2_Outcomes(rec) :
       /\ cart_items' = o.cart_items
       /\ req' = [req EXCEPT ![r] = o.req]

RemoveFromCart2_Delete(r, u, id) ==
    /\ Idle(r)
    /\ UNCHANGED <<products, orders, order_items, nextCartId, nextOrderId, edits, users>>
    /\ RemoveFromCart2_Run(r, [Invoke("removeFromCart2", u)
                                 EXCEPT !.cartItemId = id])

\* ---------------------------------------- updateCartQuantity, actions/cart.ts
\* Variant: only a negative quantity is handed to removeFromCart.
UpdateCartQuantity1_FetchRead_NegativeOnly(rec) ==
    IF ~Authenticated(rec.userId) THEN {Finish(rec, "Unauthorized")}
    ELSE IF rec.quantity < 0 THEN RemoveFromCart1_FetchRead(rec)
    ELSE LET cartItem == CartLineById(rec.cartItemId)
             product == products[The(cartItem).product_id]
         IN  {Finish(rec, "NotFound")} \cup
             (IF cartItem = {} THEN {}
              ELSE IF The(cartItem).clerk_id # rec.userId
              THEN {Finish(rec, "Forbidden")}
              ELSE IF ~product.is_active THEN {Finish(rec, "Inactive")}
              ELSE IF rec.quantity > product.stock_quantity
              THEN {Finish(rec, "InsufficientStock")}
              ELSE {At(rec, "u1_write")})

UpdateCartQuantity1_FetchRead(rec) ==
    IF ~Authenticated(rec.userId) THEN {Finish(rec, "Unauthorized")}
    ELSE IF rec.quantity <= 0 THEN RemoveFromCart1_FetchRead(rec)
    ELSE LET cartItem == CartLineById(rec.cartItemId)
             product == products[The(cartItem).product_id]
         IN  {Finish(rec, "NotFound")} \cup
             (IF cartItem = {} THEN {}
              ELSE IF The(cartItem).clerk_id # rec.userId
              THEN {Finish(rec, "Forbidden")}
              ELSE IF ~product.is_active THEN {Finish(rec, "Inactive")}
              ELSE IF rec.quantity > product.stock_quantity
              THEN {Finish(rec, "InsufficientStock")}
              ELSE {At(rec, "u1_write")})

UpdateCartQuantity1_Fetch(r, u, id, q) ==
    /\ Idle(r)
    /\ UNCHANGED <<tables, nextCartId, nextOrderId, edits, users>>
    /\ \E next \in UpdateCartQuantity1_FetchRead(
                     [Invoke("updateCartQuantity1", u)
                        EXCEPT !.cartItemId = id, !.quantity = q]) :
         req' = [req EXCEPT ![r] = next]

UpdateCartQuantity1_Write(r) ==
    /\ req[r].pc = "u1_write"
    /\ UNCHANGED <<products, orders, order_items, nextCartId, nextOrderId, edits, users>>
    /\ \/ /\ UNCHANGED cart_items
          /\ req' = [req EXCEPT ![r] = Finish(req[r], "UpdateFailed")]
       \/ /\ QuantityAllowed(req[r].quantity)
          /\ cart_items' = UpdateQuantity(CartLineById(req[r].cartItemId),
                                          req[r].quantity)
          /\ req' = [req EXCEPT ![r] = Finish(req[r], "ok")]

\* -------------------------------- updateCartQuantity, second implementation
UpdateCartQuantity2_FetchRead(rec) ==
    LET cartItem == OwnedCartLineById(rec.cartItemId, rec.userId)
    IN  {Finish(rec, "NotFound")} \cup
        (IF cartItem = {} THEN {}
         ELSE {[rec EXCEPT !.pc = "u2_product",
                           !.productId = The(cartItem).product_id]})

\* Up to the first storage call: the session check, the hand-over to
\* removeFromCart for newQuantity <= 0, else the fetch of the caller's line.
UpdateCartQuantity2_Outcomes(rec) ==
    IF ~Authenticated(rec.userId)
    THEN {[req |-> Finish(rec, "Unauthorized"), cart_items |-> cart_items]}
    ELSE IF rec.quantity <= 0
    THEN RemoveFromCart2_Outcomes(rec)
    ELSE {[req |-> next, cart_items |-> cart_items] :
             next \in UpdateCartQuantity2_FetchRead(rec)}

UpdateCartQuantity2_Fetch(r, u, id, q) ==
    /\ Idle(r)
    /\ UNCHANGED <<products, orders, order_items, nextCartId, nextOrderId, edits, users>>
    /\ \E o \in UpdateCartQuantity2_Outcomes(
                  [Invoke("updateCartQuantity2", u)
                     EXCEPT !.cartItemId = id, !.quantity = q]) :
          /\ cart_items' = o.cart_items
          /\ req' = [req EXCEPT ![r] = o.req]

UpdateCartQuantity2_ProductRead(rec) ==
    LET product == ProductRow(rec.productId)
    IN  {Finish(rec, "NotFound")} \cup
        (IF product = {} THEN {}
         ELSE IF The(product).stock_quantity < rec.quantity
         THEN {Finish(rec, "InsufficientStock")}
         ELSE {At(rec, "u2_write")})

UpdateCartQuantity2_Product(r) ==
    /\ req[r].pc = "u2_product"
    /\ UNCHANGED <<tables, nextCartId, nextOrderId, edits, users>>
    /\ \E next \in UpdateCartQuantity2_ProductRead(req[r]) :
         req' = [req EXCEPT ![r] = next]

UpdateCartQuantity2_Write(r) ==
    /\ req[r].pc = "u2_write"
    /\ UNCHANGED <<products, orders, order_items, nextCartId, nextOrderId, edits, users>>
    /\ \/ /\ UNCHANGED cart_items
          /\ req' = [req EXCEPT ![r] = Finish(req[r], "UpdateFailed")]
       \/ /\ QuantityAllowed(req[r].quantity)
          /\ cart_items' = UpdateQuantity(
                OwnedCartLineById(req[r].cartItemId, req[r].userId),
                req[r].quantity)
          /\ req' = [req EXCEPT ![r] = Finish(req[r], "ok")]

\* ----------------------------------------------------------------- getOrder
\* select('*, order_items (*)').eq('id', orderId).eq('clerk_id', userId)
\* Variant: the order is looked up by id alone.
OrderQuery_AnyOwner(orderId, userId) ==
    {[order |-> o, order_items |-> {i \in order_items : i.order_id = o.id}] :
        o \in {x \in orders : x.id = orderId}}

OrderQuery(orderId, userId) ==
    {[order |-> o, order_items |-> {i \in order_items : i.order_id = o.id}] :
        o \in {x \in orders : x.id = orderId /\ x.clerk_id = userId}}

\* What getOrder can answer: the row found, or the not-found result that any
\* error of .single() (no row, or a failed query) is turned into.
GetOrderResults(orderId, userId) ==
    IF ~Authenticated(userId)
    THEN {[result |-> "Unauthorized", data |-> {}]}
    ELSE {[result |-> "NotFound", data |-> {}]} \cup
         {[result |-> "ok", data |-> {d}] : d \in OrderQuery(orderId, userId)}

GetOrder_Query(r, u, id) ==
    /\ Idle(r)
    /\ UNCHANGED <<tables, nextCartId, nextOrderId, edits, users>>
    /\ \E res \in GetOrderResults(id, u) :
         req' = [req EXCEPT ![r] =
                   [Finish([Invoke("getOrder", u) EXCEPT !.orderId = id],
                           res.result)
                      EXCEPT !.data = res.data]]

\* --------------------------------------------------------------------- Next
\* One invocation at a time (slot 1), its queries interleaved with edits of
\* the catalogue.
Handler(r) ==
    \/ \E u \in Callers, p \in ProductIds \cup {MissingProductId},
          q \in ReqQuantities : AddToCart1_Product(r, u, p, q)
    \/ AddToCart1_Existing(r)
    \/ AddToCart1_Write(r)
    \/ \E u \in Callers, p \in ProductIds \cup {MissingProductId},
          q \in ReqQuantities : AddToCart2_Product(r, u, p, q)
    \/ AddToCart2_Existing(r)
    \/ AddToCart2_Write(r)
    \/ \E u \in Callers, id \in CartIds : RemoveFromCart1_Fetch(r, u, id)
    \/ RemoveFromCart1_Delete(r)
    \/ \E u \in Callers, id \in CartIds : RemoveFromCart2_Delete(r, u, id)
    \/ \E u \in Callers, id \in CartIds, q \in ReqQuantities :
          UpdateCartQuantity1_Fetch(r, u, id, q)
    \/ UpdateCartQuantity1_Write(r)
    \/ \E u \in Callers, id \in CartIds, q \in ReqQuantities :
          UpdateCartQuantity2_Fetch(r, u, id, q)
    \/ UpdateCartQuantity2_Product(r)
    \/ UpdateCartQuantity2_Write(r)
    \/ \E u \in Callers : CreateOrder_LoadCart(r, u)
    \/ CreateOrder_InsertOrder(r)
    \/ CreateOrder_InsertItems(r)
    \/ CreateOrder_Rollback(r)
    \/ CreateOrder_ClearCart(r)
    \/ \E u \in Callers, id \in OrderIds : GetOrder_Query(r, u, id)
    \/ Return(r)

Catalogue ==
    \/ \E p \in ProductIds, s \in 0 .. MaxStock : SetStock(p, s)
    \/ \E p \in ProductIds, b \in BOOLEAN : SetActive(p, b)
    \/ \E p \in ProductIds, pr \in Prices : SetPrice(p, pr)
    \/ \E p \in ProductIds, n \in Names : Rename(p, n)

Next == Catalogue \/ Handler(1)

Spec == Init /\ [][Next]_vars

\* ============================================================ racing calls
\* Two invocations at once (slots 1 and 2), by the same user on the same
\* product: the handlers share nothing but the tables, so every interleaving
\* of their storage calls is a behaviour.
RaceUser == "u1"

RaceProduct == "pA"

RaceHandler(r) ==
    \/ AddToCart1_Product(r, RaceUser, RaceProduct, 1)
    \/ AddToCart1_Existing(r)
    \/ AddToCart1_Write(r)
    \/ AddToCart2_Product(r, RaceUser, RaceProduct, 1)
    \/ AddToCart2_Existing(r)
    \/ AddToCart2_Write(r)
    \/ \E id \in CartIds : RemoveFromCart2_Delete(r, RaceUser, id)
    \/ Return(r)

RaceNext == \E r \in Reqs : RaceHandler(r)

RaceSpec == Init /\ [][RaceNext]_vars

\* Two invocations of addToCart by the user whose line for RaceProduct is
\* already in the cart, while the stock of that product is edited.
ExistingLineUser == "u2"

IncrementHandler(r) ==
    \/ AddToCart1_Product(r, ExistingLineUser, RaceProduct, 1)
    \/ AddToCart1_Existing(r)
    \/ AddToCart1_Write(r)
    \/ AddToCart2_Product(r, ExistingLineUser, RaceProduct, 1)
    \/ AddToCart2_Existing(r)
    \/ AddToCart2_Write(r)
    \/ Return(r)

IncrementNext ==
    \/ \E r \in Reqs : IncrementHandler(r)
    \/ \E s \in 0 .. MaxStock : SetStock(RaceProduct, s)

IncrementSpec == Init /\ [][IncrementNext]_vars

\* ================================================================= webhook
\* POST /api/webhooks/clerk. The identity provider reports user lifecycle
\* events; one request is one step. cart_items and orders carry the
\* provider's id in clerk_id and hold no reference to users, so the delete
\* on users reaches no other table.
WebhookEvents == {"user.deleted", "user.created", "user.updated",
                  "session.created"}

\* Secret not configured, Svix headers missing, or the signature does not
\* verify: the request is answered 500/400 before any event is read.
Webhook_Rejected(r) ==
    /\ Idle(r)
    /\ req' = [req EXCEPT ![r] = Finish(Invoke("webhook", NoUser), "Rejected")]
    /\ UNCHANGED <<tables, nextCartId, nextOrderId, edits, users>>

\* case 'user.deleted': delete from users where clerk_id = evt.data.id.
Webhook_UserDeleted(r, clerkUserId) ==
    /\ Idle(r)
    /\ \/ /\ req' = [req EXCEPT ![r] =
                       Finish(Invoke("user.deleted", clerkUserId),
                              "DeleteFailed")]
          /\ UNCHANGED users
       \/ /\ users' = {u \in users : u.clerk_id # clerkUserId}
          /\ req' = [req EXCEPT ![r] =
                       Finish(Invoke("user.deleted", clerkUserId), "ok")]
    /\ UNCHANGED <<tables, nextCartId, nextOrderId, edits>>

\* user.created, user.updated and unhandled types are logged only.
Webhook_Logged(r, eventType, clerkUserId) ==
    /\ Idle(r)
    /\ eventType # "user.deleted"
    /\ req' = [req EXCEPT ![r] = Finish(Invoke(eventType, clerkUserId), "ok")]
    /\ UNCHANGED <<tables, nextCartId, nextOrderId, edits, users>>

Webhook_POST(r) ==
    \/ Webhook_Rejected(r)
    \/ \E u \in Users : Webhook_UserDeleted(r, u)
    \/ \E e \in WebhookEvents, u \in Users : Webhook_Logged(r, e, u)

\* Webhook requests next to the cart calls of RaceUser.
WebhookNext == \E r \in Reqs : Webhook_POST(r) \/ RaceHandler(r)

WebhookSpec == Init /\ [][WebhookNext]_vars

\* =============================================================== cart views
\* Reads of the cart and the pages that show its amounts. They change no
\* table, so they are explored from every small catalogue and cart: ViewInit.
\* The rows are kept as sets: the order by created_at is not modelled.
CallerLines(userId) == {c \in cart_items : c.clerk_id = userId}

\* getCart, actions/cart.ts: .filter((item) => item.products).map(...)
GetCart1_Data(userId) ==
    {[id |-> c.id, clerk_id |-> c.clerk_id, product_id |-> c.product_id,
      quantity |-> c.quantity, product |-> The(ProductRow(c.product_id))] :
        c \in {x \in CallerLines(userId) : ProductRow(x.product_id) # {}}}

GetCart1_Results(userId) ==
    IF ~Authenticated(userId) THEN {[result |-> "Unauthorized", data |-> {}]}
    ELSE {[result |-> "CartFetchFailed", data |-> {}],
          [result |-> "ok", data |-> GetCart1_Data(userId)]}

GetCart1_Query(r, u) ==
    /\ Idle(r)
    /\ UNCHANGED <<tables, nextCartId, nextOrderId, edits, users>>
    /\ \E res \in GetCart1_Results(u) :
         req' = [req EXCEPT ![r] =
                   [Finish(Invoke("getCart1", u), res.result)
                      EXCEPT !.data = res.data]]

\* getCart, second implementation: data.map(item => ({...item, products}))
\* with no filter; products is the joined row or null (the empty set here).
GetCart2_Data(userId) ==
    {[id |-> c.id, clerk_id |-> c.clerk_id, product_id |-> c.product_id,
      quantity |-> c.quantity, products |-> ProductRow(c.product_id)] :
        c \in CallerLines(userId)}

GetCart2_Results(userId) ==
    IF ~Authenticated(userId) THEN {[result |-> "Unauthorized", data |-> {}]}
    ELSE {[result |-> "CartFetchFailed", data |-> {}],
          [result |-> "ok", data |-> GetCart2_Data(userId)]}

GetCart2_Query(r, u) ==
    /\ Idle(r)
    /\ UNCHANGED <<tables, nextCartId, nextOrderId, edits, users>>
    /\ \E res \in GetCart2_Results(u) :
         req' = [req EXCEPT ![r] =
                   [Finish(Invoke("getCart2", u), res.result)
                      EXCEPT !.data = res.data]]

\* reduce((sum, item) => sum + item.product.price * item.quantity, 0)
RECURSIVE SumByProduct(_)
SumByProduct(items) ==
    IF items = {} THEN 0
    ELSE LET item == CHOOSE x \in items : TRUE
         IN  item.product.price * item.quantity + SumByProduct(items \ {item})

\* reduce((sum, item) => sum + item.products.price * item.quantity, 0)
RECURSIVE SumByProducts(_)
SumByProducts(items) ==
    IF items = {} THEN 0
    ELSE LET item == CHOOSE x \in items : TRUE
         IN  Prod(item).price * item.quantity + SumByProducts(items \ {item})

\* app/cart/page.tsx
CartPage_totalAmount(cartItems) ==
    SumByProduct({item \in cartItems :
                    item.product.is_active /\ item.product.stock_quantity > 0})

CartPage_unavailableCount(cartItems) ==
    Cardinality({item \in cartItems :
                   ~item.product.is_active \/ item.product.stock_quantity = 0})

CartPage_Views(userId) ==
    IF ~Authenticated(userId) THEN {[result |-> "Redirect", data |-> {}]}
    ELSE {IF res.result # "ok" THEN [result |-> "ErrorView", data |-> {}]
          ELSE LET totalAmount == CartPage_totalAmount(res.data)
               IN  [result |-> "ok",
                    data |-> {[totalAmount |-> totalAmount,
                               finalAmount |-> IF totalAmount >= 50000
                                               THEN totalAmount
                                               ELSE totalAmount + 3000,
                               unavailableCount |->
                                  CartPage_unavailableCount(res.data)]}] :
             res \in GetCart1_Results(userId)}

CartPage_Render(r, u) ==
    /\ Idle(r)
    /\ UNCHANGED <<tables, nextCartId, nextOrderId, edits, users>>
    /\ \E view \in CartPage_Views(u) :
         req' = [req EXCEPT ![r] =
                   [Finish(Invoke("CartPage", u), view.result)
                      EXCEPT !.data = view.data]]

\* app/checkout/page.tsx: every line is summed; item.products.price of a line
\* whose joined product is null throws.
CheckoutPage_Views(userId) ==
    IF ~Authenticated(userId) THEN {[result |-> "Redirect", data |-> {}]}
    ELSE {IF res.result # "ok" THEN [result |-> "ErrorView", data |-> {}]
          ELSE IF res.data = {} THEN [result |-> "EmptyView", data |-> {}]
          ELSE IF \E item \in res.data : item.products = {}
          THEN [result |-> "Crashed", data |-> {}]
          ELSE LET totalAmount == SumByProducts(res.data)
                   shippingFee == IF totalAmount >= 50000 THEN 0 ELSE 3000
               IN  [result |-> "ok",
                    data |-> {[totalAmount |-> totalAmount,
                               finalAmount |-> totalAmount + shippingFee,
                               unavailableCount |-> 0]}] :
             res \in GetCart2_Results(userId)}

CheckoutPage_Render(r, u) ==
    /\ Idle(r)
    /\ UNCHANGED <<tables, nextCartId, nextOrderId, edits, users>>
    /\ \E view \in CheckoutPage_Views(u) :
         req' = [req EXCEPT ![r] =
                   [Finish(Invoke("CheckoutPage", u), view.result)
                      EXCEPT !.data = view.data]]

\* components/OrderSummary.tsx, given items of the shape CartItemWithProduct
\* (item.product), which is what the first getCart returns.
OrderSummary(items) ==
    LET activeItems == {item \in items :
                          item.product.is_active
                            /\ item.product.stock_quantity > 0}
        subtotal == SumByProduct(activeItems)
        shippingFee == IF subtotal >= 50000 THEN 0 ELSE 3000
    IN  [totalAmount |-> subtotal,
         finalAmount |-> subtotal + shippingFee,
         unavailableCount |-> Cardinality(items) - Cardinality(activeItems)]

OrderSummary_Render(r, u) ==
    /\ Idle(r)
    /\ Authenticated(u)
    /\ UNCHANGED <<tables, nextCartId, nextOrderId, edits, users>>
    /\ req' = [req EXCEPT ![r] =
                 [Finish(Invoke("OrderSummary", u), "ok")
                    EXCEPT !.data = {OrderSummary(GetCart1_Data(u))}]]

\* Small catalogues and carts; a line for MissingProductId is one whose
\* product row is gone (the case the reads guard against with
\* "if (!product)" and "filter((item) => item.products)").
ViewCarts ==
    {a \cup b \cup c :
       a \in {{}} \cup {{[id |-> 1, clerk_id |-> "u1", product_id |-> "pA",
                          quantity |-> q]} : q \in 1 .. MaxStock},
       b \in {{}, {[id |-> 2, clerk_id |-> "u1", product_id |-> "pB",
                    quantity |-> 1]}},
       c \in {{}, {[id |-> 3, clerk_id |-> "u1",
                    product_id |-> MissingProductId, quantity |-> 1]},
                  {[id |-> 3, clerk_id |-> "u2", product_id |-> "pA",
                    quantity |-> 1]}}}

ViewInit ==
    /\ products \in {f \in [ProductIds ->
                              [name : {"n1"}, price : Prices,
                               stock_quantity : 0 .. MaxStock,
                               is_active : BOOLEAN]] :
                       f["pA"].price = 25000 /\ f["pB"].price = 49999}
    /\ cart_items \in ViewCarts
    /\ orders = {}
    /\ order_items = {}
    /\ nextCartId = MaxCartIds + 1
    /\ nextOrderId = 1
    /\ edits = 0
    /\ req = [r \in Reqs |-> IdleReq]
    /\ users = {[clerk_id |-> u] : u \in Users}

ViewNext ==
    \/ \E u \in Callers : GetCart1_Query(1, u)
    \/ \E u \in Callers : GetCart2_Query(1, u)
    \/ \E u \in Callers : CartPage_Render(1, u)
    \/ \E u \in Callers : CheckoutPage_Render(1, u)
    \/ \E u \in Callers : OrderSummary_Render(1, u)
    \/ Return(1)

ViewSpec == ViewInit /\ [][ViewNext]_vars

\* ================================================================= checkout
\* createOrder alone, started from every small catalogue and cart.
CheckoutInit ==
    /\ products \in {f \in [ProductIds ->
                              [name : Names, price : Prices,
                               stock_quantity : 0 .. MaxStock,
                               is_active : BOOLEAN]] :
                       /\ f["pA"].price = 25000 /\ f["pA"].name = "n1"
                       /\ f["pB"].price = 49999 /\ f["pB"].name = "n2"}
    /\ cart_items \in ViewCarts
    /\ orders = {}
    /\ order_items = {}
    /\ nextCartId = MaxCartIds + 1
    /\ nextOrderId = 1
    /\ edits = 0
    /\ req = [r \in Reqs |-> IdleReq]
    /\ users = {[clerk_id |-> u] : u \in Users}

CheckoutNext ==
    \/ \E u \in Callers : CreateOrder_LoadCart(1, u)
    \/ CreateOrder_InsertOrder(1)
    \/ CreateOrder_InsertItems(1)
    \/ CreateOrder_Rollback(1)
    \/ CreateOrder_ClearCart(1)
    \/ Return(1)

CheckoutSpec == CheckoutInit /\ [][CheckoutNext]_vars

\* Two invocations of createOrder by one user, from every small catalogue
\* and cart.
OrderingUser == "u1"

DoubleOrderHandler(r) ==
    \/ CreateOrder_LoadCart(r, OrderingUser)
    \/ CreateOrder_InsertOrder(r)
    \/ CreateOrder_InsertItems(r)
    \/ CreateOrder_Rollback(r)
    \/ CreateOrder_ClearCart(r)
    \/ Return(r)

DoubleOrderNext == \E r \in Reqs : DoubleOrderHandler(r)

DoubleOrderSpec == CheckoutInit /\ [][DoubleOrderNext]_vars

\* createOrder next to an addToCart or updateCartQuantity of the same user,
\* the one whose line for RaceProduct is in the cart at the start.
CartWriterHandler(r) ==
    \/ CreateOrder_LoadCart(r, ExistingLineUser)
    \/ CreateOrder_InsertOrder(r)
    \/ CreateOrder_InsertItems(r)
    \/ CreateOrder_Rollback(r)
    \/ CreateOrder_ClearCart(r)
    \/ AddToCart1_Product(r, ExistingLineUser, RaceProduct, 1)
    \/ AddToCart1_Existing(r)
    \/ AddToCart1_Write(r)
    \/ \E id \in CartIds :
          UpdateCartQuantity1_Fetch(r, ExistingLineUser, id, MaxStock)
    \/ UpdateCartQuantity1_Write(r)
    \/ Return(r)

CartWriterNext == \E r \in Reqs : CartWriterHandler(r)

CartWriterSpec == Init /\ [][CartWriterNext]_vars

\* Every cart and order write of one caller, two invocations at a time,
\* next to the rows of another user (cart line 1 and order 1 at the start).
IsolationCaller == "u1"

IsolationHandler(r) ==
    \/ \E q \in ReqQuantities :
          AddToCart1_Product(r, IsolationCaller, RaceProduct, q)
    \/ AddToCart1_Existing(r)
    \/ AddToCart1_Write(r)
    \/ \E q \in ReqQuantities :
          AddToCart2_Product(r, IsolationCaller, RaceProduct, q)
    \/ AddToCart2_Existing(r)
    \/ AddToCart2_Write(r)
    \/ \E id \in CartIds : RemoveFromCart1_Fetch(r, IsolationCaller, id)
    \/ RemoveFromCart1_Delete(r)
    \/ \E id \in CartIds : RemoveFromCart2_Delete(r, IsolationCaller, id)
    \/ \E id \in CartIds, q \in ReqQuantities :
          UpdateCartQuantity1_Fetch(r, IsolationCaller, id, q)
    \/ UpdateCartQuantity1_Write(r)
    \/ \E id \in CartIds, q \in ReqQuantities :
          UpdateCartQuantity2_Fetch(r, IsolationCaller, id, q)
    \/ UpdateCartQuantity2_Product(r)
    \/ UpdateCartQuantity2_Write(r)
    \/ CreateOrder_LoadCart(r, IsolationCaller)
    \/ CreateOrder_InsertOrder(r)
    \/ CreateOrder_InsertItems(r)
    \/ CreateOrder_Rollback(r)
    \/ CreateOrder_ClearCart(r)
    \/ Return(r)

IsolationNext == \E r \in Reqs : IsolationHandler(r)

IsolationSpec == Init /\ [][IsolationNext]_vars

\* ==================================================================== claims
\* A step of the invocation in slot r (the catalogue edits leave req alone).
HandlerStep(r) == req'[r] # req[r]

\* The first step of an invocation in slot r.
Begins(r, op) == Idle(r) /\ req'[r].pc # "idle" /\ req'[r].op = op

RECURSIVE Amount(_)
Amount(rows) ==
    IF rows = {} THEN 0
    ELSE LET x == CHOOSE y \in rows : TRUE
         IN  x.price * x.quantity + Amount(rows \ {x})

FeeFor(subtotal) == IF subtotal >= 50000 THEN 0 ELSE 3000

\* The cart lines an invocation holds as valid, as (product, quantity, name,
\* price) rows.
Lines(validItems) ==
    {[product_id |-> v.product_id, quantity |-> v.quantity,
      product_name |-> Prod(v).name, price |-> Prod(v).price] :
        v \in validItems}

ItemsOf(orderId) == {i \in order_items : i.order_id = orderId}

Succeeded(r) ==
    req[r].op = "createOrder" /\ req[r].pc = "done" /\ req[r].result = "ok"

\* C1 (as stated): when a line of the caller's cart has a quantity above the
\* current stock of its product, createOrder returns a failure at its stock
\* check and leaves order rows, order-line rows and the cart as they were.
C1_AnyOverStockLineFails ==
    [][\A r \in Reqs :
         (/\ Begins(r, "createOrder")
          /\ \E c \in cart_items :
                /\ c.clerk_id = req'[r].userId
                /\ c.quantity > products[c.product_id].stock_quantity)
         => /\ req'[r].pc = "done"
            /\ req'[r].result # "ok"
            /\ UNCHANGED <<cart_items, orders, order_items>>]_vars

\* C1 (amended): when a line of the caller's cart whose product is active has
\* a quantity above the current stock of its product, createOrder returns a
\* failure and leaves order rows, order-line rows and the cart as they were;
\* a line whose product is inactive is skipped without a stock check.
C1_ActiveOverStockLineFails ==
    [][\A r \in Reqs :
         (/\ Begins(r, "createOrder")
          /\ \E c \in cart_items :
                /\ c.clerk_id = req'[r].userId
                /\ products[c.product_id].is_active
                /\ c.quantity > products[c.product_id].stock_quantity)
         => /\ req'[r].pc = "done"
            /\ req'[r].result # "ok"
            /\ UNCHANGED <<cart_items, orders, order_items>>]_vars

C1_Witness ==
    /\ req[1].op = "createOrder" /\ req[1].pc = "done"
    /\ req[1].result = "InsufficientStock"
    /\ \E c \in cart_items :
          /\ c.clerk_id = req[1].userId
          /\ products[c.product_id].is_active
          /\ c.quantity > products[c.product_id].stock_quantity
    /\ \A o \in orders : o.clerk_id # req[1].userId

\* The rows createOrder's cart query finds valid, read off the tables as
\* they stand when the invocation begins.
ValidCartLines(userId) ==
    {[product_id |-> c.product_id, quantity |-> c.quantity,
      product_name |-> products[c.product_id].name,
      price |-> products[c.product_id].price] :
        c \in {x \in cart_items :
                 /\ x.clerk_id = userId
                 /\ products[x.product_id].is_active
                 /\ x.quantity <= products[x.product_id].stock_quantity}}

ReadsValidLines(r) ==
    (Begins(r, "createOrder") /\ req'[r].pc = "co_insert_order")
        => Lines(req'[r].validItems) = ValidCartLines(req'[r].userId)

\* C2: a createOrder that returns success has added exactly one order row:
\* owned by the caller, "pending", its total the sum of price x quantity over
\* the valid cart lines it read plus the shipping fee for that sum; the
\* invocation adds no other order row.
C2_OneOrderRow ==
    [][\A r \in Reqs :
         /\ ReadsValidLines(r)
         /\ Succeeded(r)' =>
              /\ req'[r].orderId # 0
              /\ Cardinality({o \in orders' : o.id = req'[r].orderId}) = 1
              /\ \A o \in orders' :
                    o.id = req'[r].orderId =>
                      /\ o.clerk_id = req'[r].userId
                      /\ o.status = "pending"
                      /\ o.total_amount =
                            Amount(Lines(req'[r].validItems))
                              + FeeFor(Amount(Lines(req'[r].validItems)))
         /\ (HandlerStep(r) /\ "createOrder" \in {req[r].op, req'[r].op}) =>
              /\ Cardinality(orders' \ orders) <= 1
              /\ orders' \ orders # {} =>
                    /\ req[r].orderId = 0
                    /\ \A o \in orders' \ orders : o.id = req'[r].orderId
                    /\ \A o \in orders : o.id # req'[r].orderId]_vars

C2_Witness ==
    /\ Succeeded(1)
    /\ Cardinality(req[1].validItems) = 2
    /\ \E o \in orders : o.id = req[1].orderId /\ o.clerk_id = "u1"

\* C3: a createOrder that returns success has added exactly one order-line
\* row per valid cart line it read, each with the new order's id, the line's
\* product id and quantity, and the product name and price of the cart query
\* that produced the total; it adds no order-line row for another product.
C3_OneLinePerValidItem ==
    [][\A r \in Reqs :
         /\ ReadsValidLines(r)
         /\ Succeeded(r)' =>
              /\ Cardinality({i \in order_items' : i.order_id = req'[r].orderId}) =
                    Cardinality(req'[r].validItems)
              /\ {[product_id |-> i.product_id, quantity |-> i.quantity,
                   product_name |-> i.product_name, price |-> i.price] :
                      i \in {j \in order_items' : j.order_id = req'[r].orderId}}
                   = Lines(req'[r].validItems)
         /\ (HandlerStep(r) /\ "createOrder" \in {req[r].op, req'[r].op}) =>
              /\ order_items \subseteq order_items'
              /\ \A i \in order_items' \ order_items :
                    /\ req[r].pc = "co_insert_items"
                    /\ i.order_id = req[r].orderId]_vars

\* The catalogue changed between the cart query and the insert of the lines.
C3_Witness ==
    /\ Succeeded(1)
    /\ \E i \in ItemsOf(req[1].orderId) :
          \/ i.price # products[i.product_id].price
          \/ i.product_name # products[i.product_id].name

\* C4 (as stated): the step on which createOrder returns success has deleted
\* exactly the caller's cart lines for the ordered products: none of them is
\* left, and every other cart line, of the caller or of another user, is
\* unchanged.
C4_DeletesExactlyOrderedLines ==
    [][\A r \in Reqs :
         Succeeded(r)' /\ HandlerStep(r) =>
           cart_items' =
              {c \in cart_items :
                  \/ c.clerk_id # req'[r].userId
                  \/ c.product_id \notin
                       {l.product_id : l \in Lines(req'[r].validItems)}}]_vars

\* C5: for every subtotal s >= 0 (0 included) the shipping fee createOrder
\* computes is 0 when s >= 50000 and 3000 otherwise, and the total it stores
\* is s plus that fee.
C5_ShippingFee ==
    \A r \in Reqs :
       (req[r].op = "createOrder"
          /\ (Succeeded(r) \/ req[r].pc \in {"co_insert_order", "co_insert_items",
                                             "co_clear_cart"})) =>
          LET s == Amount(Lines(req[r].validItems))
          IN  /\ s >= 0
              /\ req[r].finalTotal - s = (IF s >= 50000 THEN 0 ELSE 3000)
              /\ \A o \in orders :
                    o.id = req[r].orderId => o.total_amount = req[r].finalTotal

\* A subtotal of exactly 50000 ships free.
C5_Witness ==
    /\ Succeeded(1)
    /\ Amount(Lines(req[1].validItems)) = 50000
    /\ \E o \in orders : o.id = req[1].orderId /\ o.total_amount = 50000

\* C6 (as stated): in every reachable state, between the database steps of a
\* createOrder and after a failed step included, every order row's total is
\* the sum of price x quantity over its order-line rows plus the shipping fee
\* for that sum.
C6_TotalMatchesLines ==
    \A o \in orders :
       o.total_amount = Amount(ItemsOf(o.id)) + FeeFor(Amount(ItemsOf(o.id)))

\* C7: with no caller identifier, addToCart, removeFromCart and
\* updateCartQuantity (both implementations) and createOrder return the
\* authorization failure and change no cart line, order row or order-line row.
MutatingOps ==
    {"addToCart1", "addToCart2", "removeFromCart1", "removeFromCart2",
     "updateCartQuantity1", "updateCartQuantity2", "createOrder"}

C7_NoCallerNoChange ==
    [][\A r \in Reqs :
         (/\ Idle(r) /\ req'[r].pc # "idle"
          /\ req'[r].op \in MutatingOps
          /\ req'[r].userId = NoUser)
         => /\ req'[r].pc = "done"
            /\ req'[r].result = "Unauthorized"
            /\ UNCHANGED <<cart_items, orders, order_items>>]_vars

C7_Witness ==
    /\ req[1].pc = "done" /\ req[1].userId = NoUser
    /\ req[1].op = "updateCartQuantity2"
    /\ req[1].result = "Unauthorized"
    /\ \E c \in cart_items : c.clerk_id = "u1"

AddOps == {"addToCart1", "addToCart2"}

\* The product row as the running addToCart read it is still the stored one.
SnapshotCurrent(r) ==
    /\ req[r].productId \in ProductIds
    /\ \/ req[r].product = {Columns1(products[req[r].productId])}
       \/ req[r].product = {Columns2(products[req[r].productId])}

\* C8 (as stated): addToCart (both implementations) on a product whose stock
\* is 0 or that is inactive fails and adds or changes no cart line.
C8_UnavailableProductNotAdded ==
    [][\A r \in Reqs :
         (/\ HandlerStep(r)
          /\ req[r].op \in AddOps /\ Running(r)
          /\ SnapshotCurrent(r)
          /\ \/ products[req[r].productId].stock_quantity = 0
             \/ ~products[req[r].productId].is_active)
         => /\ cart_items' = cart_items
            /\ req'[r].result # "ok"]_vars

\* C9 (as stated): addToCart with quantity >= 1 (both implementations) goes on
\* past the product lookup only for a product that exists and is active
\* (ProductNotFound / ProductInactive otherwise), returns InsufficientStock
\* when the existing cart quantity plus the requested one exceeds the stock it
\* read, and on success has created the caller's line with the requested
\* quantity or raised the existing line by exactly that quantity.
C9_AddToCartOutcomes ==
    [][\A r \in Reqs :
         /\ (\E op \in AddOps : Begins(r, op)) /\ Running(r)' /\ req'[r].quantity >= 1
              => /\ req'[r].productId \in ProductIds
                 /\ products[req'[r].productId].is_active
         /\ (HandlerStep(r) /\ req[r].pc \in {"a1_existing", "a2_existing"}
               /\ req[r].quantity >= 1) =>
              LET line == CartLineOf(req[r].userId, req[r].productId)
                  had  == IF line = {} THEN 0 ELSE The(line).quantity
              IN  had + req[r].quantity > The(req[r].product).stock_quantity
                    => /\ req'[r].pc = "done"
                       /\ req'[r].result \in {"InsufficientStock", "CartFetchFailed"}
         /\ (HandlerStep(r) /\ req[r].pc \in {"a1_write", "a2_write"}
               /\ req[r].quantity >= 1 /\ req'[r].result = "ok") =>
              LET line == CartLineOf(req[r].userId, req[r].productId)
                  had  == IF line = {} THEN 0 ELSE The(line).quantity
                  now  == {c \in cart_items' : /\ c.clerk_id = req[r].userId
                                               /\ c.product_id = req[r].productId}
              IN  /\ Cardinality(now) = 1
                  /\ \A c \in now : c.quantity = had + req[r].quantity
                  /\ cart_items' \ now = cart_items \ line]_vars

\* C10: getOrder hands a caller only orders whose owner is the caller; for an
\* order of another user it answers exactly what it answers for an order id
\* that does not exist.
C10_OnlyOwnOrders ==
    /\ \A u \in Users, id \in OrderIds :
          /\ \A res \in GetOrderResults(id, u) :
                /\ res.result = "ok" <=> res.data # {}
                /\ \A d \in res.data :
                      /\ d.order.id = id
                      /\ d.order.clerk_id = u
                      /\ d.order_items = ItemsOf(id)
          /\ (\E o \in orders : o.id = id /\ o.clerk_id # u)
                => GetOrderResults(id, u) = GetOrderResults(MaxOrders + 1, u)
    /\ \A r \in Reqs :
          (req[r].op = "getOrder" /\ req[r].pc = "done") =>
              \A d \in req[r].data : d.order.clerk_id = req[r].userId

\* The caller owns an order, asked for the other user's and got not-found.
C10_Witness ==
    /\ req[1].op = "getOrder" /\ req[1].pc = "done"
    /\ req[1].userId = "u1" /\ req[1].result = "NotFound"
    /\ \E o \in orders : o.id = req[1].orderId /\ o.clerk_id = "u2"
    /\ \E o \in orders : o.clerk_id = "u1"

\* What the caller and the cart see of an outcome: how far the call got, the
\* result value and the cart it leaves.
Observed(outcomes) ==
    {[pc |-> o.req.pc, result |-> o.req.result, cart_items |-> o.cart_items] :
        o \in outcomes}

UpdateCall(op, u, id, q) ==
    [Invoke(op, u) EXCEPT !.cartItemId = id, !.quantity = q]

RemoveCall(op, u, id) == [Invoke(op, u) EXCEPT !.cartItemId = id]

\* C11: for every cart line id and every new quantity <= 0, updateCartQuantity
\* gives the same result value and the same resulting cart as removeFromCart
\* called with that id by the same caller (both implementations), in every
\* state with no call in progress and on the delete the first implementation
\* is left to do.
C11_NonPositiveUpdateIsRemoval ==
    /\ (\A r \in Reqs : Idle(r)) =>
        \A u \in Users \cup {NoUser}, id \in CartIds, q \in {-1, 0} :
          /\ Observed({[req |-> n, cart_items |-> cart_items] :
                n \in UpdateCartQuantity1_FetchRead(
                        UpdateCall("updateCartQuantity1", u, id, q))})
               = Observed({[req |-> n, cart_items |-> cart_items] :
                   n \in RemoveFromCart1_FetchRead(
                           RemoveCall("removeFromCart1", u, id))})
          /\ Observed(UpdateCartQuantity2_Outcomes(
                         UpdateCall("updateCartQuantity2", u, id, q)))
               = Observed(RemoveFromCart2_Outcomes(
                            RemoveCall("removeFromCart2", u, id)))
    /\ \A r \in Reqs :
          req[r].pc = "r1_delete" =>
             Observed(RemoveFromCart1_DeleteOutcomes(req[r]))
               = Observed(RemoveFromCart1_DeleteOutcomes(
                            RemoveCall("removeFromCart1", req[r].userId,
                                       req[r].cartItemId)))

\* An update to quantity 0 of the caller's own line is about to delete it.
C11_Witness ==
    /\ req[1].op = "updateCartQuantity1" /\ req[1].pc = "r1_delete"
    /\ req[1].quantity <= 0
    /\ \E c \in cart_items : c.id = req[1].cartItemId /\ c.clerk_id = "u1"

UpdateOps == {"updateCartQuantity1", "updateCartQuantity2"}

Results(outcomes) == {o.result : o \in outcomes}

Quiescent == \A r \in Reqs : Idle(r)

\* A step of updateCartQuantity with a quantity > 0 leaves the cart alone or
\* sets the quantity of the caller's own line with the given id, and nothing
\* else.
UpdateWritesOwnLineOnly(r) ==
    (HandlerStep(r) /\ req[r].op \in UpdateOps /\ req[r].quantity > 0) =>
       \/ cart_items' = cart_items
       \/ \E c \in cart_items :
             /\ c.id = req[r].cartItemId
             /\ c.clerk_id = req[r].userId
             /\ req'[r].result = "ok"
             /\ cart_items' = (cart_items \ {c}) \cup
                                {[c EXCEPT !.quantity = req[r].quantity]}

FailedStepsKeepCart(r) ==
    (HandlerStep(r) /\ "none" # req'[r].result /\ req'[r].result # "ok"
       /\ req'[r].op \in UpdateOps) => cart_items' = cart_items

\* C12 (as stated): updateCartQuantity with a new quantity > 0 answers
\* Unauthorized (ownership mismatch) for a line of another user and
\* InsufficientStock for a quantity above the product's stock, unless the
\* storage call itself fails; in both cases the line keeps its quantity, and
\* only a line owned by the caller is ever changed.
C12_UpdateRejections ==
    [][/\ Quiescent =>
            \A u \in Users, q \in 1 .. MaxStock + 1 :
               \A c \in cart_items :
                  /\ c.clerk_id # u =>
                       /\ "Forbidden" \in Results(UpdateCartQuantity1_FetchRead(
                             UpdateCall("updateCartQuantity1", u, c.id, q)))
                       /\ "Forbidden" \in
                            {o.req.result : o \in UpdateCartQuantity2_Outcomes(
                               UpdateCall("updateCartQuantity2", u, c.id, q))}
                  /\ (c.clerk_id = u /\ q > products[c.product_id].stock_quantity) =>
                       "InsufficientStock" \in
                          Results(UpdateCartQuantity1_FetchRead(
                             UpdateCall("updateCartQuantity1", u, c.id, q)))
       /\ \A r \in Reqs :
             /\ UpdateWritesOwnLineOnly(r)
             /\ FailedStepsKeepCart(r)]_vars

\* C12 (amended): for a line of another user the first implementation
\* answers Unauthorized (ownership mismatch) and the second, whose lookup is
\* filtered by the caller, answers not-found; for a quantity above the stock
\* the call reads, the answer is InsufficientStock, or in the first
\* implementation the not-for-sale failure when the product is inactive. No
\* such call gets as far as the write, a failed call leaves the cart as it
\* was, and only the caller's own line with the given id is ever changed.
C12_UpdateRejectionsByImplementation ==
    [][/\ Quiescent =>
            \A u \in Users, q \in 1 .. MaxStock + 1 :
               \A c \in cart_items :
                  LET first  == UpdateCartQuantity1_FetchRead(
                                   UpdateCall("updateCartQuantity1", u, c.id, q))
                      second == {o.req : o \in UpdateCartQuantity2_Outcomes(
                                   UpdateCall("updateCartQuantity2", u, c.id, q))}
                      over   == q > products[c.product_id].stock_quantity
                  IN  /\ c.clerk_id # u =>
                           /\ "Forbidden" \in Results(first)
                           /\ Results(first) \subseteq {"Forbidden", "NotFound"}
                           /\ Results(second) = {"NotFound"}
                      /\ (c.clerk_id = u /\ over) =>
                           /\ (IF products[c.product_id].is_active
                               THEN "InsufficientStock" ELSE "Inactive")
                                 \in Results(first)
                           /\ \A n \in first : n.pc = "done" /\ n.result # "ok"
       /\ \A r \in Reqs :
             /\ (req[r].pc = "u2_product" /\ req[r].productId \in ProductIds
                   /\ req[r].quantity > products[req[r].productId].stock_quantity)
                  => LET reads == UpdateCartQuantity2_ProductRead(req[r])
                     IN  /\ "InsufficientStock" \in Results(reads)
                         /\ \A n \in reads : n.pc = "done" /\ n.result # "ok"
             /\ UpdateWritesOwnLineOnly(r)
             /\ FailedStepsKeepCart(r)]_vars

\* The second implementation turned down a quantity above the stock and the
\* caller's line is as it was.
C12_Witness ==
    /\ req[1].op = "updateCartQuantity2" /\ req[1].pc = "done"
    /\ req[1].userId = "u1" /\ req[1].result = "InsufficientStock"
    /\ \E c \in cart_items : c.clerk_id = "u1" /\ c.quantity = 1
    /\ \E c \in cart_items : c.clerk_id = "u2"

RemoveOps == {"removeFromCart1", "removeFromCart2"}

OwnLine(u, id) == {c \in cart_items : c.id = id /\ c.clerk_id = u}

\* C13: removeFromCart (both implementations) deletes the line with the given
\* id only if the caller owns it: a line of another user is still there after
\* the call, and a removal deletes no line but the one named.
C13_RemoveOnlyOwnLine ==
    [][/\ Quiescent =>
            \A u \in Users, id \in CartIds :
               /\ \A o \in RemoveFromCart2_Outcomes(
                              RemoveCall("removeFromCart2", u, id)) :
                     /\ o.cart_items \subseteq cart_items
                     /\ cart_items \ o.cart_items \subseteq OwnLine(u, id)
                     /\ o.req.result = "ok" => o.cart_items \cap OwnLine(u, id) = {}
               /\ \A n \in RemoveFromCart1_FetchRead(
                              RemoveCall("removeFromCart1", u, id)) :
                     n.pc # "done" => OwnLine(u, id) # {}
       /\ \A r \in Reqs :
             /\ (req[r].pc = "r1_delete" /\ req[r].op = "removeFromCart1") =>
                   \A o \in RemoveFromCart1_DeleteOutcomes(req[r]) :
                      /\ o.cart_items \subseteq cart_items
                      /\ cart_items \ o.cart_items
                           \subseteq OwnLine(req[r].userId, req[r].cartItemId)
                      /\ o.req.result = "ok" =>
                           o.cart_items
                             \cap OwnLine(req[r].userId, req[r].cartItemId) = {}
             /\ (HandlerStep(r) /\ RemoveOps \cap {req[r].op, req'[r].op} # {}) =>
                   /\ cart_items' \subseteq cart_items
                   /\ Cardinality(cart_items \ cart_items') <= 1
                   /\ \A c \in cart_items \ cart_items' :
                         c.clerk_id = req'[r].userId]_vars

\* The first implementation refused to remove the other user's line.
C13_Witness ==
    /\ req[1].op = "removeFromCart1" /\ req[1].pc = "done"
    /\ req[1].userId = "u1" /\ req[1].result = "Forbidden"
    /\ \E c \in cart_items : c.clerk_id = "u2"

\* The caller's lines whose product row exists, each with that row.
LinesWithProduct(userId) ==
    {[id |-> c.id, product_id |-> c.product_id, quantity |-> c.quantity,
      product |-> products[c.product_id]] :
        c \in {x \in cart_items : x.clerk_id = userId
                                    /\ x.product_id \in ProductIds}}

Pages == {"CartPage", "CheckoutPage", "OrderSummary"}

\* Sum of price x quantity over the caller's lines whose product is active
\* and has stock.
RECURSIVE AvailableSubtotal(_)
AvailableSubtotal(lines) ==
    IF lines = {} THEN 0
    ELSE LET l == CHOOSE x \in lines : TRUE
         IN  (IF l.product.is_active /\ l.product.stock_quantity > 0
              THEN l.product.price * l.quantity ELSE 0)
               + AvailableSubtotal(lines \ {l})

\* C17 (as stated): the subtotal shown by the cart page, the checkout page and
\* OrderSummary is the sum of price x quantity over exactly the caller's lines
\* whose product is active and has stock_quantity > 0, so all three agree.
C17_PagesShowAvailableSubtotal ==
    \A r \in Reqs :
       (req[r].pc = "done" /\ req[r].op \in Pages /\ req[r].result = "ok") =>
          \A view \in req[r].data :
             view.totalAmount = AvailableSubtotal(LinesWithProduct(req[r].userId))

\* C15: an order-line row, once created, keeps its product name, price and
\* quantity in every later state: no operation of the system and no change of
\* the product's name, price, stock or active flag alters or removes it.
C15_OrderLinesFrozen ==
    [][/\ order_items \subseteq order_items'
       /\ \A i \in order_items, j \in order_items' :
             (j.order_id = i.order_id /\ j.product_id = i.product_id) => j = i]_vars

\* The first order's line still carries the old name and price after the
\* product was renamed and repriced and a later order was placed.
C15_Witness ==
    /\ \E i \in order_items :
          /\ i.order_id = 1
          /\ i.price # products[i.product_id].price
          /\ i.product_name # products[i.product_id].name
    /\ \E o \in orders : o.id # 1
    /\ \E i \in order_items : i.order_id # 1

OneLinePerPair ==
    \A c \in cart_items, d \in cart_items :
       (c.clerk_id = d.clerk_id /\ c.product_id = d.product_id) => c = d

\* C16: in every state there is at most one cart line per (user, product);
\* when two addToCart invocations for the same user and product both found no
\* line, the uniqueness constraint rejects the second insert and that
\* invocation returns a failure and adds nothing.
C16_OneLinePerUserAndProduct ==
    [][/\ OneLinePerPair /\ OneLinePerPair'
       /\ \A r \in Reqs :
             (/\ HandlerStep(r)
              /\ req[r].pc \in {"a1_write", "a2_write"}
              /\ req[r].existingItem = {}
              /\ CartLineOf(req[r].userId, req[r].productId) # {})
             => /\ req'[r].pc = "done"
                /\ req'[r].result = "InsertFailed"
                /\ cart_items' = cart_items]_vars

\* Both calls found no line; the first has inserted its line and returned,
\* the second is about to insert.
C16_Witness ==
    /\ req[1].pc = "done" /\ req[1].result = "ok"
    /\ req[1].op = "addToCart2"
    /\ req[2].pc = "a2_write" /\ req[2].existingItem = {}
    /\ Cardinality(CartLineOf(RaceUser, RaceProduct)) = 1

\* ---------------------------------------------------------------------- C18
RowsOfUser(u, userRows, cartRows, orderRows) ==
    [user |-> {x \in userRows : x.clerk_id = u},
     cart |-> {c \in cartRows : c.clerk_id = u},
     orders |-> {o \in orderRows : o.clerk_id = u}]

NoRows == [user |-> {}, cart |-> {}, orders |-> {}]

\* C18: when a verified user.deleted event for user U has been answered with
\* success, U's user row, U's cart lines and U's orders are all gone.
C18_UserDeletedRemovesUserRows ==
    [][\A r \in Reqs :
          (/\ Begins(r, "user.deleted")
           /\ req'[r].result = "ok")
          => RowsOfUser(req'[r].userId, users', cart_items', orders')
               = NoRows]_vars

\* ---------------------------------------------------------------------- C19
\* What the cart page and OrderSummary count as unavailable: the product is
\* inactive or has no stock.
Unavailable(c) ==
    \/ ~products[c.product_id].is_active
    \/ products[c.product_id].stock_quantity <= 0

Orderable(c) ==
    /\ products[c.product_id].is_active
    /\ products[c.product_id].stock_quantity >= c.quantity

OwnCart(u) == {c \in cart_items : c.clerk_id = u}

\* The caller's cart is a mix of orderable and unavailable lines only.
MixedCart(u) ==
    /\ \E c \in OwnCart(u) : Orderable(c)
    /\ \E c \in OwnCart(u) : Unavailable(c)
    /\ \A c \in OwnCart(u) : Orderable(c) \/ Unavailable(c)

OrderableLines(u) ==
    {[product_id |-> c.product_id, quantity |-> c.quantity,
      product_name |-> products[c.product_id].name,
      price |-> products[c.product_id].price] :
        c \in {x \in OwnCart(u) : Orderable(x)}}

\* C19: with at least one orderable line and one or more unavailable lines
\* (product out of stock or inactive) in the caller's cart, createOrder gets
\* past its stock check with exactly the orderable lines as the lines to
\* order (only a storage error can stop it), and its cart delete leaves
\* every line it did not order where it was.
C19_UnavailableLinesExcluded ==
    [][\A r \in Reqs :
          /\ (/\ Begins(r, "createOrder")
              /\ Authenticated(req'[r].userId)
              /\ MixedCart(req'[r].userId))
             => \/ req'[r].result = "CartLoadFailed"
                \/ /\ req'[r].pc = "co_insert_order"
                   /\ Lines(req'[r].validItems)
                        = OrderableLines(req'[r].userId)
          /\ (req[r].pc = "co_clear_cart" /\ HandlerStep(r))
             => \A c \in cart_items :
                   c.product_id \notin OrderedProductIds(req[r].validItems)
                      => c \in cart_items']_vars

\* ---------------------------------------------------------------------- C20
\* The cart lines a step wrote: inserted, or updated to another quantity.
Written == cart_items' \ cart_items

\* C20: when addToCart or updateCartQuantity returns success, the quantity
\* it wrote to the cart line is above 0 and at most the stock of the line's
\* product as it stands at the moment of the write, whatever cart calls and
\* stock changes came before or in between.
C20_WrittenQuantityWithinStock ==
    [][\A r \in Reqs :
          (/\ HandlerStep(r)
           /\ req[r].op \in AddOps \cup UpdateOps
           /\ req'[r].pc = "done"
           /\ req'[r].result = "ok")
          => \A c \in Written :
                /\ c.quantity > 0
                /\ c.quantity <= products[c.product_id].stock_quantity]_vars

\* ---------------------------------------------------------------------- C21
\* C21: concurrent addToCart calls for one user and product are not
\* coordinated. The write of a call that found a line stores the quantity it
\* read plus its increment, whatever the line holds by then, and no write is
\* refused for stock: a second writer overwrites the first one's increment,
\* and a stock decrease after the check leaves the line above the stock.
C21_AddToCartWritesWhatItRead ==
    [][\A r \in Reqs :
          (/\ HandlerStep(r)
           /\ req[r].pc \in {"a1_write", "a2_write"})
          => /\ req'[r].result \in {"ok", "UpdateFailed", "InsertFailed"}
             /\ (req[r].existingItem # {} /\ req'[r].result = "ok")
                => \A c \in cart_items' :
                      c.id = The(req[r].existingItem).id
                      => c.quantity = The(req[r].existingItem).quantity
                                        + req[r].quantity]_vars

\* Both calls read the line at quantity 1 and passed the stock check at
\* stock 2; the stock went down to less than 2, the first call has written 2
\* and returned success, the second is about to write 2 again.
C21_Witness ==
    /\ req[1].pc = "done" /\ req[1].result = "ok" /\ req[1].op \in AddOps
    /\ req[2].pc \in {"a1_write", "a2_write"}
    /\ req[2].existingItem # {}
    /\ \A e \in req[2].existingItem : e.quantity = 1
    /\ \A c \in CartLineOf(ExistingLineUser, RaceProduct) : c.quantity = 2
    /\ CartLineOf(ExistingLineUser, RaceProduct) # {}
    /\ products[RaceProduct].stock_quantity < 2

\* ---------------------------------------------------------------------- C22
\* The caller's lines that createOrder's cart query joins with a product.
KnownLines(u) == {c \in OwnCart(u) : c.product_id \in ProductIds}

ShortLines(u) ==
    {c \in KnownLines(u) : products[c.product_id].stock_quantity < c.quantity}

ActiveShortLines(u) == {c \in ShortLines(u) : products[c.product_id].is_active}

Named(c) ==
    [name |-> products[c.product_id].name,
     stock |-> products[c.product_id].stock_quantity]

\* C22 (as stated): when several lines of the caller's cart have a quantity
\* above the stock of their product, createOrder's failure names every one of
\* these products with its current stock.
C22_AllShortLinesNamed ==
    [][\A r \in Reqs :
          (/\ Begins(r, "createOrder")
           /\ Authenticated(req'[r].userId)
           /\ req'[r].result # "CartLoadFailed"
           /\ Cardinality(ShortLines(req'[r].userId)) > 1)
          => /\ req'[r].result = "InsufficientStock"
             /\ req'[r].data = {Named(c) : c \in ShortLines(req'[r].userId)}]_vars

\* C22 (amended): createOrder checks every line whose product is active
\* before failing; when one or more of them have a quantity above the stock,
\* the failure names each of these products with its current stock, and no
\* other product. Lines of inactive products are skipped and never named.
C22_AllActiveShortLinesNamed ==
    [][\A r \in Reqs :
          (/\ Begins(r, "createOrder")
           /\ Authenticated(req'[r].userId)
           /\ req'[r].result # "CartLoadFailed"
           /\ ActiveShortLines(req'[r].userId) # {})
          => /\ req'[r].result = "InsufficientStock"
             /\ req'[r].data
                  = {Named(c) : c \in ActiveShortLines(req'[r].userId)}]_vars

\* Two products of the caller's cart are named in one failure.
C22_Witness ==
    /\ req[1].op = "createOrder" /\ req[1].pc = "done"
    /\ req[1].result = "InsufficientStock"
    /\ Cardinality(ActiveShortLines(req[1].userId)) = 2
    /\ Cardinality(req[1].data) = 2

\* ---------------------------------------------------------------------- C23
ActiveLines(u) == {c \in KnownLines(u) : products[c.product_id].is_active}

\* C23: when the caller has no cart line whose product is active (no line at
\* all, or only lines of inactive products), createOrder fails with EmptyCart
\* at its cart read and writes no order row, no order-line row and deletes
\* no cart line.
C23_NoActiveLineIsEmptyCart ==
    [][\A r \in Reqs :
          (/\ Begins(r, "createOrder")
           /\ Authenticated(req'[r].userId)
           /\ req'[r].result # "CartLoadFailed"
           /\ ActiveLines(req'[r].userId) = {})
          => /\ req'[r].pc = "done"
             /\ req'[r].result = "EmptyCart"
             /\ UNCHANGED <<cart_items, orders, order_items>>]_vars

\* ---------------------------------------------------------------------- C24
\* C24: when the order-line insert of a createOrder fails, the invocation
\* goes on to delete the order header it has just created and nothing else,
\* and returns a failure; no cart line is deleted and no order line of this
\* invocation exists; when the delete went through, its order row is gone.
C24_FailedLinesRollBackHeader ==
    [][\A r \in Reqs :
          /\ (req[r].pc = "co_insert_items" /\ HandlerStep(r)
              /\ req'[r].pc # "co_clear_cart")
             => /\ req'[r].pc = "co_rollback"
                /\ UNCHANGED <<cart_items, orders, order_items>>
          /\ (req[r].pc = "co_rollback" /\ HandlerStep(r))
             => /\ req'[r].pc = "done"
                /\ req'[r].result = "OrderItemsFailed"
                /\ UNCHANGED <<cart_items, order_items>>
                /\ {i \in order_items : i.order_id = req[r].orderId} = {}
                /\ orders' \in {orders,
                                {o \in orders : o.id # req[r].orderId}}]_vars

\* The compensating delete went through while an earlier order of the same
\* caller is in the table.
C24_Witness ==
    /\ req[1].op = "createOrder" /\ req[1].pc = "done"
    /\ req[1].result = "OrderItemsFailed"
    /\ \A o \in orders : o.id # req[1].orderId
    /\ \E o \in orders : o.clerk_id = req[1].userId
    /\ OwnCart(req[1].userId) # {}

\* ---------------------------------------------------------------------- C25
\* C25: no step of createOrder, on any path, creates, changes or deletes a
\* product row: name, price, stock_quantity and is_active of every product
\* are after the step what they were before it.
C25_CreateOrderLeavesProducts ==
    [][\A r \in Reqs :
          (HandlerStep(r) /\ "createOrder" \in {req[r].op, req'[r].op})
          => products' = products]_vars

\* An order for a product has been placed and the catalogue is as it was
\* at the start.
C25_Witness ==
    /\ Succeeded(1)
    /\ ItemsOf(req[1].orderId) # {}
    /\ edits = 0
    /\ \A p \in ProductIds : products[p].stock_quantity = MaxStock

\* ---------------------------------------------------------------------- C26
\* C26: whenever no createOrder invocation is in progress, every order row
\* has at least one order-line row referring to it.
C26_EveryOrderHasALine ==
    InFlight({"createOrder"}) = 0
        => \A o \in orders : ItemsOf(o.id) # {}

\* ---------------------------------------------------------------------- C27
\* C27: a cart line is turned into an order at most once: of two createOrder
\* invocations by one user over the same cart lines, however their steps
\* interleave, at most one returns success, and at most one order row is
\* created for those lines.
C27_CartLineOrderedOnce ==
    [][\A r \in Reqs :
          (/\ req[r].pc = "co_clear_cart" /\ HandlerStep(r)
           /\ req[r].validItems # {})
          => \A r2 \in Reqs \ {r} :
                ~(/\ Succeeded(r2)
                  /\ req[r2].userId = req[r].userId
                  /\ req[r2].validItems = req[r].validItems)]_vars

\* ---------------------------------------------------------------------- C28
RECURSIVE SumQuantity(_)
SumQuantity(rows) ==
    IF rows = {} THEN 0
    ELSE LET i == CHOOSE x \in rows : TRUE
         IN  i.quantity + SumQuantity(rows \ {i})

OrderedQuantity(p) == SumQuantity({i \in order_items : i.product_id = p})

\* C28: for every product, the quantities of all its order lines together
\* never exceed its stock_quantity, whatever successful createOrder
\* invocations were made. (Stated for the catalogue as it was at the start:
\* no stock edit has happened.)
C28_OrderedWithinStock ==
    edits = 0
        => \A p \in ProductIds :
              OrderedQuantity(p) <= products[p].stock_quantity

\* ---------------------------------------------------------------------- C29
\* C29: every cart line that a successful createOrder deletes is the
\* caller's and has, when it is deleted, the quantity of the order line
\* created for it, also when an addToCart or updateCartQuantity of the same
\* user came between the cart read and the cart delete.
C29_DeletedLineWasOrdered ==
    [][\A r \in Reqs :
          (req[r].pc = "co_clear_cart" /\ HandlerStep(r))
          => \A c \in cart_items \ cart_items' :
                /\ c.clerk_id = req[r].userId
                /\ \E v \in req[r].validItems :
                      /\ v.product_id = c.product_id
                      /\ v.quantity = c.quantity]_vars

\* ---------------------------------------------------------------------- C30
\* The user in whose name the step of slot r is made.
CallerOf(r) == IF Idle(r) THEN req'[r].userId ELSE req[r].userId

Foreign(rows, u) == {x \in rows : x.clerk_id # u}

\* Order lines belong to the owner of their order.
ForeignLines(rows, u) ==
    {i \in rows : \E o \in orders \cup orders' :
                     o.id = i.order_id /\ o.clerk_id # u}

\* C30: a step of addToCart, removeFromCart, updateCartQuantity or
\* createOrder made by caller U, in any sequence and interleaving of U's
\* invocations, creates, changes or deletes no cart line, order row or order
\* line of another user, and every row it creates is U's.
C30_WritesStayWithCaller ==
    [][\A r \in Reqs :
          HandlerStep(r)
          => /\ Foreign(cart_items', CallerOf(r)) = Foreign(cart_items, CallerOf(r))
             /\ Foreign(orders', CallerOf(r)) = Foreign(orders, CallerOf(r))
             /\ ForeignLines(order_items', CallerOf(r))
                  = ForeignLines(order_items, CallerOf(r))
             /\ \A i \in order_items' \ order_items :
                   \E o \in orders' : /\ o.id = i.order_id
                                      /\ o.clerk_id = CallerOf(r)]_vars

\* The caller has placed an order, has been refused the removal of the other
\* user's line and has a cart line of the same product; the other user's
\* line, order and order line are as they were at the start.
C30_Witness ==
    /\ req[1].op \in RemoveOps /\ req[1].pc = "done"
    /\ req[1].result = "Forbidden"
    /\ \E o \in orders : o.clerk_id = IsolationCaller /\ ItemsOf(o.id) # {}
    /\ CartLineOf(IsolationCaller, RaceProduct) # {}
    /\ Foreign(cart_items, IsolationCaller)
         = {[id |-> 1, clerk_id |-> "u2", product_id |-> "pA", quantity |-> 1]}
    /\ Foreign(orders, IsolationCaller) # {}

====
